---------------------------- MODULE Spec2Model ----------------------------
(***************************************************************************)
(* Model of notion-autopilot: the upsert operations of                     *)
(* basic_operations.py and notion/post_tasks.py against one remote table,  *)
(* and the refresh scheduler of scheduled_refresh.py.                      *)
(*                                                                         *)
(* The remote store (the notion client) is an external collaborator: a     *)
(* call to it either returns or raises, chosen nondeterministically.       *)
(***************************************************************************)
EXTENDS Integers, Sequences, FiniteSets, TLC

VARIABLES
    database,   \* the target table's column definitions, in dict order
    op,         \* the operation called last, with its arguments
    calls,      \* the remote calls that operation issued, in order
    ret,        \* what that operation returned ("raised": an exception escaped)
    interval_minutes,  \* start_scheduler's argument
    sched_pc,   \* where start_scheduler stands
    refresh_pc, \* where the running perform_refresh stands ("idle": none runs)
    projects_db,\* config.get('projects_db') of the running cycle
    now,        \* the clock, in seconds since start_scheduler was entered
    next_run,   \* the scheduled job's next_run
    results,    \* the outcome of each cycle started so far, in order
    enable_changelog,  \* the ENABLE_CHANGELOG setting load_config reads
    changelog_exists,  \* os.path.exists('data/changelog.csv')
    changelog,  \* the text of data/changelog.csv, as a sequence of pieces
    changelog_calls,   \* every update_changelog call so far, in order
    update_result,     \* how the last run_update ended
    remote_row, \* the properties of the row the query returns
    written,    \* the property map last built for that row
    record,     \* what the read path made of the row
    mapper_pc   \* the last step of the read and write paths

upsertVars == <<database, op, calls, ret>>

schedVars == <<interval_minutes, sched_pc, refresh_pc, projects_db, now,
               next_run, results>>

auditVars == <<enable_changelog, changelog_exists, changelog, changelog_calls,
               update_result>>

vars == <<database, op, calls, ret, interval_minutes, sched_pc, refresh_pc,
          projects_db, now, next_run, results, enable_changelog,
          changelog_exists, changelog, changelog_calls, update_result,
          remote_row, written, record, mapper_pc>>

mapperVars == <<remote_row, written, record, mapper_pc>>

---------------------------------------------------------------------------
(* Values *)

\* Python's None (arguments left out, variables never assigned).
None == "None"

\* Column names a table may use; "Name", "Status" and "Date" are also the
\* names post_tasks.py writes to.
Names == {"Name", "Status", "Date"}

OptionNames == {"Not Started", "Done"}

Titles == {"Test Entry", "T2"}

\* The status argument: left out, empty, an option name, or no option at all.
StatusArgs == {None, "", "Done", "Bogus"}

PageIds == {None, "", "page-1"}

\* Return values.
NewPageId == "new-page-id"
PageObject == "page-object"
Raised == "raised"

\* Python truthiness of an optional string.
Truthy(x) == x # None /\ x # ""

\* All sequences over S without repetition.
RECURSIVE Arrangements(_)
Arrangements(S) ==
    {<<>>} \cup UNION {{<<x>> \o t : t \in Arrangements(S \ {x})} : x \in S}

OptionLists == Arrangements(OptionNames)

\* One column definition of databases.retrieve(...)['properties']: a status
\* column may or may not carry prop_data['status']['options'].
Columns ==
    [name : Names, type : {"title", "date"}, has_options : {FALSE}, options : {<<>>}]
    \cup [name : Names, type : {"status"}, has_options : {FALSE}, options : {<<>>}]
    \cup [name : Names, type : {"status"}, has_options : {TRUE}, options : OptionLists]

\* A table's properties: a dict, so names are distinct and order is kept.
Databases ==
    UNION {{[i \in 1..Len(ns) |-> c[i]] :
              c \in {f \in [1..Len(ns) -> Columns] :
                        \A i \in 1..Len(ns) : f[i].name = ns[i]}} :
           ns \in Arrangements(Names)}

ColumnNames(db) == {db[i].name : i \in DOMAIN db}

\* A remote call: which endpoint, the property map sent (empty for reads),
\* and whether it returned (TRUE) or raised (FALSE).
Call(api, props, ok) == [api |-> api, props |-> props, ok |-> ok]

WriteApis == {"pages.create", "pages.update"}

\* One entry of a property map.
Prop(col, type, value) == [col |-> col, type |-> type, value |-> value]

---------------------------------------------------------------------------
(* basic_operations.create_new_entry *)

\* The loop over database['properties'].items(): the last title column, the
\* last status column, and the options of the last status column carrying any.
RECURSIVE ScanProperties(_, _, _)
ScanProperties(db, i, acc) ==
    IF i > Len(db) THEN acc
    ELSE LET prop_data == db[i] IN
         ScanProperties(db, i + 1,
            IF prop_data.type = "title"
            THEN [acc EXCEPT !.title_property = prop_data.name]
            ELSE IF prop_data.type = "status"
            THEN [acc EXCEPT !.status_property = prop_data.name,
                             !.status_options =
                                 IF prop_data.has_options
                                 THEN prop_data.options ELSE @]
            ELSE acc)

Discover(db) ==
    ScanProperties(db, 1, [title_property |-> None,
                           status_property |-> None,
                           status_options |-> <<>>])

InOptions(status, status_options) ==
    \E i \in DOMAIN status_options : status_options[i] = status

TitleProps(title_property, title) ==
    {Prop(title_property, "title", title)}

\* StatusProps passing an unknown status on unchecked.
StatusPropsVerbatim(status_property, status_options, status) ==
    IF Truthy(status_property) /\ Truthy(status)
    THEN {Prop(status_property, "status", status)}
    ELSE IF Truthy(status_property) /\ status_options # <<>>
    THEN {Prop(status_property, "status", status_options[1])}
    ELSE {}

\* StatusProps falling back to a column called "Status" when none was found.
StatusPropsFixedName(status_property, status_options, status) ==
    LET column == IF Truthy(status_property) THEN status_property ELSE "Status"
        value == IF InOptions(status, status_options) THEN status
                 ELSE IF status_options # <<>> THEN status_options[1]
                 ELSE "Not Started"
    IN {Prop(column, "status", value)}

\* StatusProps without the default of lines 93-96.
StatusPropsNoDefault(status_property, status_options, status) ==
    IF Truthy(status_property) /\ Truthy(status)
    THEN IF InOptions(status, status_options)
         THEN {Prop(status_property, "status", status)}
         ELSE IF status_options # <<>>
         THEN {Prop(status_property, "status", status_options[1])}
         ELSE {}
    ELSE {}

\* Lines 86-96: the status entry of the property map, if any.
StatusProps(status_property, status_options, status) ==
    IF Truthy(status_property) /\ Truthy(status)
    THEN IF InOptions(status, status_options)
         THEN {Prop(status_property, "status", status)}
         ELSE IF status_options # <<>>
         THEN {Prop(status_property, "status", status_options[1])}
         ELSE {}
    ELSE IF Truthy(status_property) /\ status_options # <<>>
    THEN {Prop(status_property, "status", status_options[1])}
    ELSE {}

\* HasTitle without the check.
HasTitleUnchecked(title_property) == TRUE

\* Lines 77-83: without a title column the function returns before any write.
HasTitle(title_property) == Truthy(title_property)

create_new_entry(title, status, retrieve_ok, create_ok) ==
    /\ op' = [name |-> "create_new_entry", title |-> title, status |-> status,
              page_id |-> None]
    /\ IF ~retrieve_ok
       THEN \* databases.retrieve raises outside any try
            /\ calls' = <<Call("databases.retrieve", {}, FALSE)>>
            /\ ret' = Raised
       ELSE LET d == Discover(database) IN
            IF ~HasTitle(d.title_property)
            THEN /\ calls' = <<Call("databases.retrieve", {}, TRUE)>>
                 /\ ret' = None
            ELSE LET properties ==
                         TitleProps(d.title_property, title)
                         \cup StatusProps(d.status_property, d.status_options, status)
                 IN /\ calls' = <<Call("databases.retrieve", {}, TRUE),
                                  Call("pages.create", properties, create_ok)>>
                    /\ ret' = IF create_ok THEN NewPageId ELSE None
    /\ UNCHANGED <<database, schedVars, auditVars, mapperVars>>

---------------------------------------------------------------------------
(* basic_operations.update_entry_status *)

\* pages.retrieve(...)['properties'] of a row of the table: one entry per
\* column of the table, in the table's order.  The loop breaks at the first
\* status-kind entry.
RECURSIVE FirstStatusOrFixed(_, _)
FirstStatusOrFixed(props, i) ==
    IF i > Len(props) THEN "Status"
    ELSE IF props[i].type = "status" THEN props[i].name
    ELSE FirstStatusOrFixed(props, i + 1)

RECURSIVE FirstStatus(_, _)
FirstStatus(props, i) ==
    IF i > Len(props) THEN None
    ELSE IF props[i].type = "status" THEN props[i].name
    ELSE FirstStatus(props, i + 1)

\* StatusUpdate writing to the column name post_tasks.py uses.
StatusUpdateFixedName(status_property, new_status) ==
    {Prop("Status", "status", new_status)}

StatusUpdate(status_property, new_status) ==
    {Prop(status_property, "status", new_status)}

update_entry_status(page_id, new_status, retrieve_ok, update_ok) ==
    /\ op' = [name |-> "update_entry_status", title |-> None,
              status |-> new_status, page_id |-> page_id]
    /\ IF ~Truthy(page_id)
       THEN /\ calls' = <<>>
            /\ ret' = "False"
       ELSE IF ~retrieve_ok
       THEN /\ calls' = <<Call("pages.retrieve", {}, FALSE)>>
            /\ ret' = "False"
       ELSE LET status_property == FirstStatus(database, 1) IN
            IF ~Truthy(status_property)
            THEN /\ calls' = <<Call("pages.retrieve", {}, TRUE)>>
                 /\ ret' = "False"
            ELSE /\ calls' = <<Call("pages.retrieve", {}, TRUE),
                               Call("pages.update",
                                    StatusUpdate(status_property, new_status),
                                    update_ok)>>
                 /\ ret' = IF update_ok THEN "True" ELSE "False"
    /\ UNCHANGED <<database, schedVars, auditVars, mapperVars>>

---------------------------------------------------------------------------
(* notion/post_tasks.py *)

update_project_status(project_id, status, update_ok) ==
    /\ op' = [name |-> "update_project_status", title |-> None,
              status |-> status, page_id |-> project_id]
    /\ calls' = <<Call("pages.update", {Prop("Status", "status", status)}, update_ok)>>
    /\ ret' = IF update_ok THEN PageObject ELSE Raised
    /\ UNCHANGED <<database, schedVars, auditVars, mapperVars>>

create_dashboard_update(title, has_blocks, create_ok, append_ok) ==
    /\ op' = [name |-> "create_dashboard_update", title |-> title,
              status |-> None, page_id |-> None]
    /\ LET create == Call("pages.create",
                          {Prop("Name", "title", title), Prop("Date", "date", "now")},
                          create_ok)
       IN IF ~create_ok
          THEN /\ calls' = <<create>>
               /\ ret' = Raised
          ELSE IF has_blocks
          THEN /\ calls' = <<create, Call("blocks.children.append", {}, append_ok)>>
               /\ ret' = IF append_ok THEN PageObject ELSE Raised
          ELSE /\ calls' = <<create>>
               /\ ret' = PageObject
    /\ UNCHANGED <<database, schedVars, auditVars, mapperVars>>

---------------------------------------------------------------------------
(* Specification of the upsert operations *)

NoOp == [name |-> "none", title |-> None, status |-> None, page_id |-> None]

\* No row fetched, nothing built.
NoRecord == [outcome |-> "none", failed_at |-> "none", title |-> None,
             status |-> None]

MapperIdle ==
    /\ remote_row = {}
    /\ written = {}
    /\ record = NoRecord
    /\ mapper_pc = "idle"

\* No run_update yet, and no changelog file.
NoUpdate == [outcome |-> "none", failed_at |-> "none", records |-> 0]

AuditIdle ==
    /\ enable_changelog = TRUE
    /\ changelog_exists = FALSE
    /\ changelog = <<>>
    /\ changelog_calls = <<>>
    /\ update_result = NoUpdate

\* The scheduler before start_scheduler is called.
SchedIdle ==
    /\ sched_pc = "idle"
    /\ refresh_pc = "idle"
    /\ projects_db = None
    /\ now = 0
    /\ next_run = 0
    /\ results = <<>>

Init ==
    /\ database \in Databases
    /\ op = NoOp
    /\ calls = <<>>
    /\ ret = None
    /\ interval_minutes = 1
    /\ SchedIdle
    /\ AuditIdle
    /\ MapperIdle

CreateNewEntry ==
    \E title \in Titles, status \in StatusArgs, retrieve_ok, create_ok \in BOOLEAN :
        create_new_entry(title, status, retrieve_ok, create_ok)

UpdateEntryStatus ==
    \E page_id \in PageIds, new_status \in StatusArgs \ {None},
       retrieve_ok, update_ok \in BOOLEAN :
        update_entry_status(page_id, new_status, retrieve_ok, update_ok)

UpdateProjectStatus ==
    \E status \in StatusArgs \ {None}, update_ok \in BOOLEAN :
        update_project_status("page-1", status, update_ok)

CreateDashboardUpdate ==
    \E title \in Titles, has_blocks, create_ok, append_ok \in BOOLEAN :
        create_dashboard_update(title, has_blocks, create_ok, append_ok)

Next ==
    \/ CreateNewEntry
    \/ UpdateEntryStatus
    \/ UpdateProjectStatus
    \/ CreateDashboardUpdate

Spec == Init /\ [][Next]_vars

---------------------------------------------------------------------------
(* scheduled_refresh.py *)

\* schedule's .minutes unit against time.sleep(1): one minute is 60 sleeps.
SecondsPerMinute == 60

\* The clock stops the model here.
MaxTime == 125

\* The longest a remote query blocks a cycle, in seconds.
MaxDur == 2

MaxIntervalMinutes == 2

Period == interval_minutes * SecondsPerMinute

\* schedule.every(n).minutes.do(job), and the job's rescheduling after each
\* run: next_run is one period after the moment it is computed.
ScheduleNextRun(t) == t + Period

\* ShouldRun with the comparison turned round.
ShouldRunBefore(t) == t <= next_run

\* job.should_run, as run_pending evaluates it.
ShouldRun(t) == t >= next_run

SetLast(seq, v) == [seq EXCEPT ![Len(seq)] = v]

\* Where start_scheduler continues when perform_refresh returns: the
\* initial call (line 65) falls into the loop; a scheduled job returns into
\* run_pending, which reschedules it, and the loop goes on to sleep.
AfterRefresh(pc) == IF pc = "initial" THEN "run_pending" ELSE "sleep"

\* perform_refresh without its except clause: the error leaves
\* start_scheduler.
AfterExceptionUncaught(pc) == "crashed"

\* Lines 52-54: an Exception raised inside the try is caught and
\* perform_refresh returns False to where it was called from.
AfterException(pc) == AfterRefresh(pc)

\* perform_refresh returns `result` at time t, by line 51 or by line 54.
Return(result, t, pc_after) ==
    /\ results' = SetLast(results, result)
    /\ refresh_pc' = "idle"
    /\ sched_pc' = pc_after
    /\ now' = t
    /\ next_run' = IF sched_pc = "job" /\ pc_after = "sleep"
                   THEN ScheduleNextRun(t) ELSE next_run

\* Entering perform_refresh.
BeginRefresh(pc) ==
    /\ sched_pc' = pc
    /\ refresh_pc' = "load_config"
    /\ results' = Append(results, "running")

\* Lines 58-65: schedule the job, then call perform_refresh at once.
start_scheduler ==
    /\ sched_pc = "idle"
    /\ BeginRefresh("initial")
    /\ next_run' = ScheduleNextRun(now)
    /\ UNCHANGED <<interval_minutes, projects_db, now, upsertVars, auditVars, mapperVars>>

\* Line 40.
LoadConfig ==
    /\ refresh_pc = "load_config"
    /\ \E ok \in BOOLEAN :
        IF ok
        THEN /\ \E db \in {None, "projects-db"} : projects_db' = db
             /\ refresh_pc' = "initialize_notion_client"
             /\ UNCHANGED <<sched_pc, now, next_run, results>>
        ELSE /\ Return("False", now, AfterException(sched_pc))
             /\ UNCHANGED projects_db
    /\ UNCHANGED <<interval_minutes, upsertVars, auditVars, mapperVars>>

\* Lines 41-45: without a projects database the cycle is over (line 51).
InitializeNotionClient ==
    /\ refresh_pc = "initialize_notion_client"
    /\ \E ok \in BOOLEAN :
        IF ~ok
        THEN Return("False", now, AfterException(sched_pc))
        ELSE IF Truthy(projects_db)
        THEN /\ refresh_pc' = "list_database_items"
             /\ UNCHANGED <<sched_pc, now, next_run, results>>
        ELSE Return("True", now, AfterRefresh(sched_pc))
    /\ UNCHANGED <<interval_minutes, projects_db, upsertVars, auditVars, mapperVars>>

\* Line 47: the query blocks for d seconds, then returns or raises.
ListDatabaseItems ==
    /\ refresh_pc = "list_database_items"
    /\ \E d \in 0..MaxDur, ok \in BOOLEAN :
        /\ now + d <= MaxTime
        /\ IF ok
           THEN Return("True", now + d, AfterRefresh(sched_pc))
           ELSE Return("False", now + d, AfterException(sched_pc))
    /\ UNCHANGED <<interval_minutes, projects_db, upsertVars, auditVars, mapperVars>>

\* Line 71: run the job if it is due, else fall through to the sleep.
RunPending ==
    /\ sched_pc = "run_pending"
    /\ IF ShouldRun(now)
       THEN BeginRefresh("job")
       ELSE /\ sched_pc' = "sleep"
            /\ UNCHANGED <<refresh_pc, results>>
    /\ UNCHANGED <<interval_minutes, projects_db, now, next_run, upsertVars, auditVars, mapperVars>>

\* Line 72.
Sleep ==
    /\ sched_pc = "sleep"
    /\ now < MaxTime
    /\ now' = now + 1
    /\ sched_pc' = "run_pending"
    /\ UNCHANGED <<interval_minutes, refresh_pc, projects_db, next_run, results,
                   upsertVars, auditVars, mapperVars>>

\* Where a KeyboardInterrupt raised at pc ends up: the try of lines 69-74
\* covers the loop only.
AfterInterrupt(pc) ==
    IF pc \in {"run_pending", "job", "sleep"} THEN "stopped" ELSE "escaped"

\* Ctrl+C: KeyboardInterrupt is raised wherever the process stands.  It is no
\* Exception, so perform_refresh's handler lets it through.
Interrupt ==
    /\ sched_pc \in {"initial", "run_pending", "job", "sleep"}
    /\ sched_pc' = AfterInterrupt(sched_pc)
    /\ refresh_pc' = "idle"
    /\ results' = IF refresh_pc # "idle" THEN SetLast(results, "interrupted")
                  ELSE results
    /\ UNCHANGED <<interval_minutes, projects_db, now, next_run, upsertVars, auditVars, mapperVars>>

SchedInit ==
    /\ database = <<>>
    /\ op = NoOp
    /\ calls = <<>>
    /\ ret = None
    /\ interval_minutes \in 1..MaxIntervalMinutes
    /\ SchedIdle
    /\ AuditIdle
    /\ MapperIdle

SchedStep ==
    \/ start_scheduler
    \/ LoadConfig
    \/ InitializeNotionClient
    \/ ListDatabaseItems
    \/ RunPending
    \/ Sleep

SchedNext ==
    \/ SchedStep
    \/ Interrupt

SchedSpec == SchedInit /\ [][SchedNext]_vars

\* The process runs whenever it can; nothing makes the user interrupt.
FairSchedSpec == SchedSpec /\ WF_vars(SchedStep)

---------------------------------------------------------------------------
(* notion/updater.py: the changelog and run_update *)

\* update_changelog calls the model allows in one behaviour.
MaxCalls == 3

\* Text is a sequence of pieces: "," and "\n" stand for themselves, every
\* other piece is a run of characters holding neither.
Header == <<"timestamp", ",", "status", ",", "message", "\n">>

\* datetime.now().strftime("%Y-%m-%d %H:%M:%S")
Timestamps == {"2026-11-03 21:30:05"}

Statuses == {"INFO", "ERROR"}

SuccessMessage == <<"Successful Notion update">>

\* str(e) of the exceptions a fetch may raise.
ErrorTexts == {<<"timeout">>, <<"bad request", ",", "retry">>,
               <<"bad request", "\n", "body">>}

\* f"Error: {str(e)}"
ErrorMessage(e) == <<"Error: ">> \o e

Messages == {SuccessMessage} \cup {ErrorMessage(e) : e \in ErrorTexts}

\* f"{timestamp},{status},{message}\n"
Entry(timestamp, status, message) ==
    <<timestamp, ",", status, ",">> \o message \o <<"\n">>

\* Lines 66-78: the file after update_changelog(message, status).  Either
\* `with open` block may raise; the except clause of line 77 swallows the
\* error, and what a block that raised would have written is not there.
WriteChangelog(exists, text, entry, header_ok, append_ok) ==
    LET created == ~exists /\ header_ok
        with_header == IF created THEN Header ELSE text
        reached_append == exists \/ header_ok
        wrote == reached_append /\ append_ok
    IN [exists |-> exists \/ created \/ wrote,
        text |-> IF wrote THEN with_header \o entry ELSE with_header,
        wrote |-> wrote]

\* update_changelog as a step on the file and the record of calls.
update_changelog(timestamp, message, status, header_ok, append_ok) ==
    LET w == WriteChangelog(changelog_exists, changelog,
                            Entry(timestamp, status, message), header_ok, append_ok)
    IN /\ changelog_exists' = w.exists
       /\ changelog' = w.text
       /\ changelog_calls' = Append(changelog_calls,
              [status |-> status, message |-> message, wrote |-> w.wrote])

UpdateChangelog ==
    /\ Len(changelog_calls) < MaxCalls
    /\ \E timestamp \in Timestamps, message \in Messages, status \in Statuses,
          header_ok, append_ok \in BOOLEAN :
            update_changelog(timestamp, message, status, header_ok, append_ok)
    /\ UNCHANGED <<enable_changelog, update_result, upsertVars, schedVars, mapperVars>>

\* Lines 80-132.  load_config and initialize_notion_client stand before the
\* try; the fetches stand inside it.
run_update(failed_at, e, timestamp, header_ok, append_ok) ==
    IF failed_at \in {"load_config", "initialize_notion_client"}
    THEN /\ update_result' = [outcome |-> "raised", failed_at |-> failed_at,
                              records |-> 0]
         /\ UNCHANGED <<changelog_exists, changelog, changelog_calls>>
    ELSE /\ update_result' =
              [outcome |-> IF failed_at = "none" THEN "returned" ELSE "raised",
               failed_at |-> failed_at,
               records |-> IF enable_changelog THEN 1 ELSE 0]
         /\ IF enable_changelog
            THEN IF failed_at = "none"
                 THEN update_changelog(timestamp, SuccessMessage, "INFO",
                                       header_ok, append_ok)
                 ELSE update_changelog(timestamp, ErrorMessage(e), "ERROR",
                                       header_ok, append_ok)
            ELSE UNCHANGED <<changelog_exists, changelog, changelog_calls>>

RunUpdate ==
    /\ Len(changelog_calls) < MaxCalls
    /\ \E failed_at \in {"none", "load_config", "initialize_notion_client",
                         "get_projects", "get_tasks"},
          e \in ErrorTexts, timestamp \in Timestamps,
          header_ok, append_ok \in BOOLEAN :
            run_update(failed_at, e, timestamp, header_ok, append_ok)
    /\ UNCHANGED <<enable_changelog, upsertVars, schedVars, mapperVars>>

AuditInit ==
    /\ database = <<>>
    /\ op = NoOp
    /\ calls = <<>>
    /\ ret = None
    /\ interval_minutes = 1
    /\ SchedIdle
    /\ enable_changelog \in BOOLEAN
    /\ changelog_exists = FALSE
    /\ changelog = <<>>
    /\ changelog_calls = <<>>
    /\ update_result = NoUpdate
    /\ MapperIdle

AuditNext ==
    \/ UpdateChangelog
    \/ RunUpdate

AuditSpec == AuditInit /\ [][AuditNext]_vars

---------------------------------------------------------------------------
(* notion/fetch_pages.py: the read path *)

\* The longest title run of a row.
MaxRun == 2

\* One element of a title run; plain_text = None: the key is missing.
RunElements == [plain_text : Titles \cup {None}]

RECURSIVE SeqsUpTo(_, _)
SeqsUpTo(S, n) ==
    IF n = 0 THEN {<<>>}
    ELSE SeqsUpTo(S, n - 1)
         \cup {Append(q, x) : q \in {r \in SeqsUpTo(S, n - 1) : Len(r) = n - 1}, x \in S}

Runs == SeqsUpTo(RunElements, MaxRun)

\* One entry of row['properties']: a title entry carries its run, a status
\* entry its option name (None: "status": null), others neither.
RowEntry(name, type, run, status) ==
    [name |-> name, type |-> type, run |-> run, status |-> status]

EntriesNamed(name) ==
    {RowEntry(name, "title", run, None) : run \in Runs}
    \cup {RowEntry(name, "status", <<>>, st) : st \in OptionNames \cup {None}}
    \cup {RowEntry(name, "date", <<>>, None)}

\* row['properties']: a dict, at most one entry per name.
Rows ==
    {UNION {e[n] : n \in Names} :
        e \in [Names -> UNION {{{}} \cup {{x} : x \in EntriesNamed(n)} : n \in Names}]
               \cap [Names -> SUBSET UNION {EntriesNamed(n) : n \in Names}]}

HasProp(props, name) == \E p \in props : p.name = name

PropOf(props, name) == CHOOSE p \in props : p.name = name

\* properties.get('Name', {}).get('title', [{}]): the run of the entry
\* called 'Name' if it carries one, else the default list of one empty dict.
TitleRun(props) ==
    IF HasProp(props, "Name") /\ PropOf(props, "Name").type = "title"
    THEN PropOf(props, "Name").run
    ELSE <<[plain_text |-> None]>>

\* ...[0].get('plain_text', placeholder): [0] of an empty run is an IndexError.
TitleOf(props, placeholder) ==
    LET run == TitleRun(props) IN
    IF run = <<>> THEN [raised |-> TRUE, value |-> None]
    ELSE IF run[1].plain_text = None THEN [raised |-> FALSE, value |-> placeholder]
    ELSE [raised |-> FALSE, value |-> run[1].plain_text]

\* properties.get('Status', {}).get('status', {}).get('name', 'Not Started'):
\* "status": null has no .get, an AttributeError.
StatusOf(props) ==
    IF HasProp(props, "Status") /\ PropOf(props, "Status").type = "status"
    THEN IF PropOf(props, "Status").status = None
         THEN [raised |-> TRUE, value |-> None]
         ELSE [raised |-> FALSE, value |-> PropOf(props, "Status").status]
    ELSE [raised |-> FALSE, value |-> "Not Started"]

\* The record of one row; prompts carry no status.
ToRecord(props, placeholder, with_status) ==
    LET t == TitleOf(props, placeholder)
        s == StatusOf(props)
    IN IF t.raised \/ (with_status /\ s.raised)
       THEN [outcome |-> "raised", failed_at |-> "mapping", title |-> None,
             status |-> None]
       ELSE [outcome |-> "ok", failed_at |-> "none", title |-> t.value,
             status |-> IF with_status THEN s.value ELSE None]

QueryRaised == [outcome |-> "raised", failed_at |-> "query", title |-> None,
                status |-> None]

\* The three fetches on a query result of one row: the query may raise; an
\* error while mapping the row is logged and raised again.
Fetch(name, placeholder, with_status, query_ok) ==
    /\ mapper_pc' = name
    /\ record' = IF query_ok THEN ToRecord(remote_row, placeholder, with_status)
                 ELSE QueryRaised
    /\ UNCHANGED <<remote_row, written>>

get_projects(query_ok) == Fetch("get_projects", "Untitled Project", TRUE, query_ok)

get_tasks(query_ok) == Fetch("get_tasks", "Untitled Task", TRUE, query_ok)

get_prompt_library(query_ok) ==
    Fetch("get_prompt_library", "Untitled Prompt", FALSE, query_ok)

GetProjects ==
    /\ \E query_ok \in BOOLEAN : get_projects(query_ok)
    /\ UNCHANGED <<upsertVars, schedVars, auditVars>>

GetTasks ==
    /\ \E query_ok \in BOOLEAN : get_tasks(query_ok)
    /\ UNCHANGED <<upsertVars, schedVars, auditVars>>

GetPromptLibrary ==
    /\ \E query_ok \in BOOLEAN : get_prompt_library(query_ok)
    /\ UNCHANGED <<upsertVars, schedVars, auditVars>>

MapperInit ==
    /\ database = <<>>
    /\ op = NoOp
    /\ calls = <<>>
    /\ ret = None
    /\ interval_minutes = 1
    /\ SchedIdle
    /\ AuditIdle
    /\ remote_row \in Rows
    /\ written = {}
    /\ record = NoRecord
    /\ mapper_pc = "idle"

MapperNext ==
    \/ GetProjects
    \/ GetTasks
    \/ GetPromptLibrary

MapperSpec == MapperInit /\ [][MapperNext]_vars

---------------------------------------------------------------------------
(* The write path of basic_operations.py followed by the read path of
   notion/fetch_pages.py, on one row of one table *)

\* What the table keeps of one entry of the property map sent.
Stored(p) ==
    IF p.type = "title"
    THEN RowEntry(p.col, "title", <<[plain_text |-> p.value]>>, None)
    ELSE RowEntry(p.col, "status", <<>>, p.value)

\* What a row holds in a column nothing was written to: an empty run, no
\* date, and for a status column null or whichever option the table gives.
Blank(column) ==
    IF column.type = "title" THEN {RowEntry(column.name, "title", <<>>, None)}
    ELSE IF column.type = "status"
    THEN {RowEntry(column.name, "status", <<>>, st) :
            st \in {None} \cup {column.options[i] : i \in DOMAIN column.options}}
    ELSE {RowEntry(column.name, "date", <<>>, None)}

Unwritten(db, props) ==
    {i \in DOMAIN db : \A p \in props : p.col # db[i].name}

\* The rows pages.create can leave in the table for a property map.
StoredRows(db, props) ==
    LET cols == Unwritten(db, props) IN
    {{Stored(p) : p \in props} \cup {g[i] : i \in cols} :
        g \in {f \in [cols -> UNION {Blank(db[i]) : i \in cols}] :
                  \A i \in cols : f[i] \in Blank(db[i])}}

\* A successful create_new_entry(title, status): the property map of lines
\* 73-96 is sent and the row is stored.
WriteRow ==
    /\ \E title \in Titles, status \in StatusArgs :
         LET d == Discover(database)
             properties == TitleProps(d.title_property, title)
                 \cup StatusProps(d.status_property, d.status_options, status)
         IN /\ HasTitle(d.title_property)
            /\ written' = properties
            /\ remote_row' \in StoredRows(database, properties)
    /\ record' = NoRecord
    /\ mapper_pc' = "written"
    /\ op' = NoOp
    /\ calls' = <<>>
    /\ ret' = None
    /\ UNCHANGED <<database, schedVars, auditVars>>

\* get_projects on the row just written.
FetchRow ==
    /\ mapper_pc = "written"
    /\ GetProjects

\* create_new_entry on the title and status of the record fetched.
Rebuild ==
    /\ mapper_pc = "get_projects"
    /\ record.outcome = "ok"
    /\ \E retrieve_ok \in BOOLEAN, create_ok \in BOOLEAN :
         create_new_entry(record.title, record.status, retrieve_ok, create_ok)

RoundTripInit ==
    /\ database \in Databases
    /\ op = NoOp
    /\ calls = <<>>
    /\ ret = None
    /\ interval_minutes = 1
    /\ SchedIdle
    /\ AuditIdle
    /\ MapperIdle

RoundTripNext ==
    \/ WriteRow
    \/ FetchRow
    \/ Rebuild

RoundTripSpec == RoundTripInit /\ [][RoundTripNext]_vars

---------------------------------------------------------------------------
(* Properties of the upsert operations (under Spec) *)

TitleColumns(db) == {i \in DOMAIN db : db[i].type = "title"}

StatusColumns(db) == {i \in DOMAIN db : db[i].type = "status"}

\* The table has exactly one status column, and it lists at least one option.
OneStatusWithOptions(db) ==
    /\ Cardinality(StatusColumns(db)) = 1
    /\ \A i \in StatusColumns(db) : db[i].has_options /\ db[i].options # <<>>

TheStatus(db) == db[CHOOSE i \in StatusColumns(db) : TRUE]

Created == {i \in DOMAIN calls : calls[i].api = "pages.create"}

Updated == {i \in DOMAIN calls : calls[i].api = "pages.update"}

\* The schema was retrieved, so the operation went on to look at it.
Retrieved == calls # <<>> /\ calls[1].ok

StatusEntries(props) == {p \in props : p.type = "status"}

\* C1: every write issued to the remote store (row create or row update)
\* names only columns that exist in the target table's current schema.
C1_WritesNameSchemaColumns ==
    \A i \in DOMAIN calls :
        calls[i].api \in WriteApis =>
            \A p \in calls[i].props : p.col \in ColumnNames(database)

\* C2: on a table with a title column and one status column listing options
\* o1, o2, ..., create_new_entry called with a status issues a create call
\* whose status value is that status when it is among the options, and o1
\* when it is not.
C2_InvalidStatusBecomesFirstOption ==
    ( /\ op.name = "create_new_entry"
      /\ op.status # None
      /\ TitleColumns(database) # {}
      /\ OneStatusWithOptions(database)
      /\ Retrieved )
    => /\ Cardinality(Created) = 1
       /\ \A i \in Created :
            StatusEntries(calls[i].props) =
                {Prop(TheStatus(database).name, "status",
                      IF \E k \in DOMAIN TheStatus(database).options :
                            TheStatus(database).options[k] = op.status
                      THEN op.status
                      ELSE TheStatus(database).options[1])}

\* C2's case: "Bogus" was asked for, the column lists two options, and the
\* create call carries the first of them.
C2_Witness ==
    /\ op.name = "create_new_entry"
    /\ op.status = "Bogus"
    /\ TitleColumns(database) # {}
    /\ OneStatusWithOptions(database)
    /\ Len(TheStatus(database).options) = 2
    /\ \E i \in Created :
         \E p \in calls[i].props :
            p.type = "status" /\ p.value = TheStatus(database).options[1]

\* C3: on a table with no title column create_new_entry returns None and
\* issues no create call, whatever the status argument and the status columns.
C3_NoTitleNoCreate ==
    (op.name = "create_new_entry" /\ TitleColumns(database) = {})
    => /\ Created = {}
       /\ Retrieved => ret = None

\* C3's case: no title column, a status column, a status asked for.
C3_Witness ==
    /\ op.name = "create_new_entry"
    /\ TitleColumns(database) = {}
    /\ StatusColumns(database) # {}
    /\ op.status = "Done"
    /\ Retrieved
    /\ ret = None

\* C4: on a table with a title column and no status column create_new_entry
\* issues a create call whose property map holds the title and nothing else,
\* for any status argument, and returns the new identifier when the call
\* succeeds.
C4_NoStatusColumnTitleOnly ==
    ( /\ op.name = "create_new_entry"
      /\ TitleColumns(database) # {}
      /\ StatusColumns(database) = {}
      /\ Retrieved )
    => /\ Cardinality(Created) = 1
       /\ \A i \in Created :
            /\ \E t \in TitleColumns(database) :
                 calls[i].props = {Prop(database[t].name, "title", op.title)}
            /\ calls[i].ok => ret = NewPageId

\* C4's case: a status was asked for, the table has none, the row is created.
C4_Witness ==
    /\ op.name = "create_new_entry"
    /\ op.status = "Done"
    /\ TitleColumns(database) # {}
    /\ StatusColumns(database) = {}
    /\ Len(database) > 1
    /\ ret = NewPageId

\* C5: on a table with a title column and one status column listing options,
\* create_new_entry called without a status issues a create call whose title
\* column holds the given title and whose status column holds the first option.
C5_NoStatusGivenDefaultsToFirst ==
    ( /\ op.name = "create_new_entry"
      /\ op.status = None
      /\ TitleColumns(database) # {}
      /\ OneStatusWithOptions(database)
      /\ Retrieved )
    => /\ Cardinality(Created) = 1
       /\ \A i \in Created :
            \E t \in TitleColumns(database) :
                calls[i].props =
                    { Prop(database[t].name, "title", op.title),
                      Prop(TheStatus(database).name, "status",
                           TheStatus(database).options[1]) }

\* C5's case: the scenario of the specification, title "Test Entry" and no
\* status, on a table whose status column lists "Not Started" first.
C5_Witness ==
    /\ op.name = "create_new_entry"
    /\ op.status = None
    /\ op.title = "Test Entry"
    /\ TitleColumns(database) # {}
    /\ OneStatusWithOptions(database)
    /\ TheStatus(database).options = <<"Not Started", "Done">>
    /\ ret = NewPageId

\* C6: create_new_entry always ends with the new row's identifier or the
\* failure value: no failure of a remote call escapes as a raised error, and
\* the identifier is returned only when the create call succeeded.
C6_CreateNeverRaises ==
    op.name = "create_new_entry"
    => /\ ret \in {NewPageId, None}
       /\ ret = NewPageId => \E i \in Created : calls[i].ok

\* C7: update_entry_status on a row with no status-kind column returns False
\* and issues no update call.
C7_NoStatusColumnNoUpdate ==
    (op.name = "update_entry_status" /\ StatusColumns(database) = {})
    => /\ ret = "False"
       /\ Updated = {}

\* C7's case: the row was fetched and holds columns, none of status kind.
C7_Witness ==
    /\ op.name = "update_entry_status"
    /\ StatusColumns(database) = {}
    /\ Len(database) > 0
    /\ Retrieved
    /\ ret = "False"

\* C8: update_entry_status on a row with a status-kind column issues exactly
\* one update call, setting the first such column and only it to new_status
\* as given, and returns True when that call succeeds; when the row fetch or
\* the update call fails it returns False, and never raises.
C8_UpdateWritesStatusVerbatim ==
    ( /\ op.name = "update_entry_status"
      /\ Truthy(op.page_id)
      /\ StatusColumns(database) # {} )
    => /\ ret \in {"True", "False"}
       /\ Retrieved =>
            /\ Cardinality(Updated) = 1
            /\ \A i \in Updated :
                 /\ calls[i].props =
                      {Prop(database[CHOOSE s \in StatusColumns(database) :
                                        \A r \in StatusColumns(database) : s <= r].name,
                            "status", op.status)}
                 /\ ret = "True" <=> calls[i].ok
       /\ ~Retrieved => Updated = {} /\ ret = "False"

\* C8's case: a status that is no option of the column is written as given
\* to a status column that is not called "Status", and the call succeeds.
C8_Witness ==
    /\ op.name = "update_entry_status"
    /\ op.status = "Bogus"
    /\ ret = "True"
    /\ \E i \in Updated :
         \E p \in calls[i].props : p.value = "Bogus" /\ p.col # "Status"

\* C17: whenever create_new_entry writes a status, the option name written
\* belongs to the option list of the very column it is written to, on every
\* table; and a create call carries at most one status entry and at most one
\* title entry.
C17_StatusIsOptionOfWrittenColumn ==
    op.name = "create_new_entry"
    => \A i \in Created :
         /\ \A p \in StatusEntries(calls[i].props) :
              \E c \in StatusColumns(database) :
                 /\ database[c].name = p.col
                 /\ database[c].has_options
                 /\ \E k \in DOMAIN database[c].options :
                       database[c].options[k] = p.value
         /\ Cardinality(StatusEntries(calls[i].props)) <= 1
         /\ Cardinality({p \in calls[i].props : p.type = "title"}) <= 1

---------------------------------------------------------------------------
(* Properties of the scheduler (under SchedSpec and FairSchedSpec) *)

\* No more cycles than this start before the clock stops.
CycleNumbers == 1..(MaxTime \div SecondsPerMinute + 1)

Interrupted == sched_pc \in {"stopped", "escaped"}

\* C9: a failed cycle never stops the scheduler: after the n-th cycle has
\* failed, with time left for one more interval, cycle n+1 eventually starts
\* unless an interrupt ends the scheduler first.
C9_FailedCycleIsFollowed ==
    \A n \in CycleNumbers :
        ( /\ Len(results) = n
          /\ results[n] = "False"
          /\ now + Period <= MaxTime )
        ~> (Len(results) > n \/ Interrupted)

\* C9's case: the first two cycles both failed and a third one has started.
C9_Witness ==
    /\ Len(results) = 3
    /\ results[1] = "False"
    /\ results[2] = "False"

C11_NoCycleCancelled ==
    \A i \in DOMAIN results : results[i] \in {"running", "True", "False"}

\* C12: the scheduler ends only by an interrupt, and an interrupt at any point
\* after start_scheduler is entered makes start_scheduler return normally: no
\* KeyboardInterrupt reaches its caller.
C12_InterruptLeavesCleanly ==
    /\ sched_pc # "escaped"
    /\ sched_pc \in {"idle", "initial", "run_pending", "job", "sleep", "stopped"}

---------------------------------------------------------------------------
(* Properties of the changelog and of run_update (under AuditSpec) *)

\* The lines of a text: the pieces between its line breaks, the last break
\* ending the last line.
RECURSIVE LinesFrom(_, _, _)
LinesFrom(text, i, line) ==
    IF i > Len(text) THEN (IF line = <<>> THEN <<>> ELSE <<line>>)
    ELSE IF text[i] = "\n" THEN <<line>> \o LinesFrom(text, i + 1, <<>>)
    ELSE LinesFrom(text, i + 1, Append(line, text[i]))

Lines(text) == LinesFrom(text, 1, <<>>)

IsPrefix(a, b) == Len(a) <= Len(b) /\ SubSeq(b, 1, Len(a)) = a

\* The entries of the calls that wrote, one after the other.
RECURSIVE EntriesFrom(_)
EntriesFrom(i) ==
    IF i > Len(changelog_calls) THEN <<>>
    ELSE (IF changelog_calls[i].wrote
          THEN <<CHOOSE t \in Timestamps : TRUE, ",", changelog_calls[i].status, ",">>
               \o changelog_calls[i].message \o <<"\n">>
          ELSE <<>>) \o EntriesFrom(i + 1)

\* What does hold of the file: it is empty or starts with the header, which
\* is followed by the text of each call that wrote, in call order.
ChangelogIsHeaderThenEntries ==
    /\ changelog # <<>> => changelog = Header \o EntriesFrom(1)
    /\ changelog = <<>> => \A i \in DOMAIN changelog_calls : ~changelog_calls[i].wrote

\* What does hold of every step: the file only grows at its end.
ChangelogOnlyGrows == [][IsPrefix(changelog, changelog')]_vars

\* C13: with the changelog enabled, every run_update that has ended made
\* exactly one changelog record, INFO when it returned and ERROR when an
\* error ended it, errors of load_config and initialize_notion_client included.
C13_EveryCycleLeavesOneRecord ==
    (update_result.outcome # "none" /\ enable_changelog)
    => /\ update_result.records = 1
       /\ changelog_calls # <<>>
       /\ changelog_calls[Len(changelog_calls)].status =
             IF update_result.outcome = "returned" THEN "INFO" ELSE "ERROR"

\* C14: after any sequence of update_changelog calls that all wrote, starting
\* from a missing file, the file is the header line followed by one line per
\* call, in call order.
C14_HeaderThenOneLinePerCall ==
    (changelog_calls # <<>> /\ \A i \in DOMAIN changelog_calls : changelog_calls[i].wrote)
    => /\ Len(Lines(changelog)) = 1 + Len(changelog_calls)
       /\ Lines(changelog)[1] = <<"timestamp", ",", "status", ",", "message">>
       /\ \A i \in DOMAIN changelog_calls :
            /\ i + 1 <= Len(Lines(changelog))
            /\ IsPrefix(<<CHOOSE t \in Timestamps : TRUE, ",",
                          changelog_calls[i].status, ",">>,
                        Lines(changelog)[i + 1])

---------------------------------------------------------------------------
(* Properties of the read path (under MapperSpec and RoundTripSpec) *)

Fetched == mapper_pc \in {"get_projects", "get_tasks", "get_prompt_library"}

Placeholder ==
    IF mapper_pc = "get_projects" THEN "Untitled Project"
    ELSE IF mapper_pc = "get_tasks" THEN "Untitled Task"
    ELSE "Untitled Prompt"

\* The title the row shows: the first element of the run of its title entry
\* 'Name', the placeholder when there is no such entry or the run is empty.
ShownTitle ==
    LET run == TitleRun(remote_row) IN
    IF run = <<>> THEN Placeholder
    ELSE IF run[1].plain_text = None THEN Placeholder
    ELSE run[1].plain_text

\* C15: whenever a fetch got its row from the query, and the row's status is
\* readable where a status is read, the mapping does not fail and the record's
\* title is the first element of the title run if the run is non-empty, and
\* the placeholder "Untitled <Kind>" if the title entry is absent or its run
\* is empty.
C15_TitleOrPlaceholderNeverFails ==
    (/\ Fetched
     /\ record.failed_at # "query"
     /\ (mapper_pc = "get_prompt_library" \/ ~StatusOf(remote_row).raised))
    => /\ record.outcome = "ok"
       /\ record.title = ShownTitle

PagesCreated == {i \in DOMAIN calls : calls[i].api = "pages.create"}

\* C16: a row written with the property map of create_new_entry and fetched by
\* get_projects gives a record with the title written and, if one was
\* written, the status written; and the property map create_new_entry builds
\* from that record carries the same title and status as the row.
C16_RoundTripPreserves ==
    /\ (mapper_pc = "get_projects" /\ written # {} /\ record.failed_at # "query")
       => /\ record.outcome = "ok"
          /\ \A p \in written :
               /\ p.type = "title" => record.title = p.value
               /\ p.type = "status" => record.status = p.value
    /\ (mapper_pc = "get_projects" /\ written # {} /\ op.name = "create_new_entry")
       => \A i \in PagesCreated : \A p \in written :
             \E q \in calls[i].props : q.type = p.type /\ q.value = p.value

=============================================================================
